---- MODULE Spec2Model ----
(***************************************************************************)
(* pg_struct: the structure extractor of src/src/extractor.js.             *)
(*                                                                         *)
(* The model has three layers:                                             *)
(*   - the catalog and the session of the PostgreSQL server the client is  *)
(*     connected to (pg_namespace, pg_class, pg_constraint, ..., and the   *)
(*     session's search_path);                                             *)
(*   - the SQL statements of extractor.js, each an operator over the       *)
(*     catalog that computes the rows the statement returns;               *)
(*   - the async functions of extractor.js, as a state machine whose       *)
(*     steps are the settlements of the promises returned by               *)
(*     client.query: the code between two awaits runs in one step.         *)
(***************************************************************************)
EXTENDS Integers, Sequences, FiniteSets, TLC

VARIABLES
    catalog,      \* the server's catalog (never written by the extractor)
    searchPath,   \* the session's search_path (written by SET search_path)
    inflight,     \* commands sent on the connection and not yet answered
    awaiting,     \* the command whose promise the run is suspended on
    log,          \* the commands the current run has sent, in sending order
    warnings,     \* number of console.warn lines of the current run
    currentDb,    \* extractStructure: const currentDb
    gs,           \* the frame of getSchemas: rows, position, accumulators
    gt,           \* the frame of getTables: rows, position, accumulators
    fault,        \* the rejection the connection produced in this run, if any
    outcome,      \* how the current call of extractStructure ended
    prev          \* how the call before it ended

vars == <<catalog, searchPath, inflight, awaiting, log, warnings, currentDb,
          gs, gt, fault, outcome, prev>>

\* Largest number of base tables of a user schema in the catalogs explored.
MaxTables == 2

-----------------------------------------------------------------------------
(* Names.  Identifiers are sequences of characters so that LIKE and        *)
(* ORDER BY can be computed on them.                                       *)

\* The characters used, in byte order (the order of the "C" collation).
Alphabet ==
    <<"$", "_", "a", "b", "c", "d", "e", "f", "g", "h", "i", "j", "k", "l",
      "m", "n", "o", "p", "q", "r", "s", "t", "u", "v", "w", "x", "y", "z">>

OrdTable ==
    [c \in {Alphabet[i] : i \in 1..Len(Alphabet)} |->
        CHOOSE i \in 1..Len(Alphabet) : Alphabet[i] = c]

Ord(c) == OrdTable[c]

RECURSIVE NameLess(_, _)
NameLess(a, b) ==
    IF b = <<>> THEN FALSE
    ELSE IF a = <<>> THEN TRUE
    ELSE IF Head(a) = Head(b) THEN NameLess(Tail(a), Tail(b))
    ELSE Ord(Head(a)) < Ord(Head(b))

\* ORDER BY <name column>: the names of S, ascending.
RECURSIVE OrderBy(_)
OrderBy(S) ==
    IF S = {} THEN <<>>
    ELSE LET m == CHOOSE x \in S : \A y \in S \ {x} : NameLess(x, y)
         IN  <<m>> \o OrderBy(S \ {m})

\* s LIKE p: in the pattern, % matches any string and _ any one character.
RECURSIVE Like(_, _)
Like(s, p) ==
    IF p = <<>> THEN s = <<>>
    ELSE IF Head(p) = "%"
         THEN \E k \in 0..Len(s) : Like(SubSeq(s, k + 1, Len(s)), Tail(p))
    ELSE IF s = <<>> THEN FALSE
    ELSE (Head(p) = "_" \/ Head(p) = Head(s)) /\ Like(Tail(s), Tail(p))

Range(f) == {f[i] : i \in DOMAIN f}

\* The values of column `col` in a sequence of rows.
Column(rows, col) == [i \in 1..Len(rows) |-> rows[i][col]]

\* One row per element of a sequence of values, the value in column `col`.
AsRows(values, col) == [i \in 1..Len(values) |-> [c \in {col} |-> values[i]]]

\* ORDER BY <key>: the values of column `key` in the rows of S, ascending, and
\* the row of S a value comes from (the keys are unique within S).
Keys(S, key) == OrderBy({x[key] : x \in S})

RowOf(S, key, n) == CHOOSE x \in S : x[key] = n

PgCatalog         == <<"p", "g", "_", "c", "a", "t", "a", "l", "o", "g">>
InformationSchema == <<"i", "n", "f", "o", "r", "m", "a", "t", "i", "o", "n",
                       "_", "s", "c", "h", "e", "m", "a">>
PgBoss            == <<"p", "g", "b", "o", "s", "s">>
Public            == <<"p", "u", "b", "l", "i", "c">>
App               == <<"a", "p", "p">>
DollarUser        == <<"$", "u", "s", "e", "r">>
SessionUser       == <<"d", "b", "a">>

\* The pattern of the schema query.
PgPattern == <<"p", "g", "_", "%">>

Null == "NULL"

-----------------------------------------------------------------------------
(* The catalog.  pg_namespace and pg_class are stored; the rows of the     *)
(* other catalog tables are fixed by the name of the relation they belong  *)
(* to.  Relation "a" is a self-referencing table with a two-column primary *)
(* key and a two-column foreign key, "b" has a check, a unique and an      *)
(* exclusion constraint, any further table has neither constraints,        *)
(* triggers nor indexes.                                                   *)

TableName(i) == <<Alphabet[i + 2]>>
TableA == TableName(1)
TableB == TableName(2)
ViewV  == <<"v">>
FuncF  == <<"f">>
FuncG  == <<"g">>
FuncH  == <<"h">>
PgClass     == <<"p", "g", "_", "c", "l", "a", "s", "s">>
SqlFeatures == <<"s", "q", "l", "_", "f", "e", "a", "t", "u", "r", "e", "s">>

SystemSchemas   == {PgCatalog, InformationSchema}
OptionalSchemas == {PgBoss, Public, App}

\* pg_class rows of a schema holding n base tables (and a view once it has two).
Relations(s, n) ==
    {[nsp |-> s, relname |-> TableName(i), relkind |-> "r"] : i \in 1..n}
        \cup (IF n >= 2 THEN {[nsp |-> s, relname |-> ViewV, relkind |-> "v"]}
                        ELSE {})

SystemRelations ==
    {[nsp |-> PgCatalog, relname |-> PgClass, relkind |-> "r"],
     [nsp |-> InformationSchema, relname |-> SqlFeatures, relkind |-> "r"]}

\* The orders in which the key columns of the foreign key of "a" can be declared.
ConKeys  == {<<3, 4>>, <<4, 3>>}
ConfKeys == {<<1, 2>>, <<2, 1>>}

Catalogs ==
    {[pg_namespace |-> SystemSchemas \cup S,
      pg_class     |-> SystemRelations
                           \cup UNION {Relations(s, IF s = PgBoss THEN 1 ELSE n[s]) : s \in S},
      conkey       |-> ck,
      confkey      |-> cfk] :
        S \in SUBSET OptionalSchemas, n \in [{Public, App} -> 0..MaxTables],
        ck \in ConKeys, cfk \in ConfKeys}

\* current_database() of the session, and the rows of pg_database.
DbName      == <<"s", "h", "o", "p">>
OtherDbName == <<"h", "r">>
PgDatabase  ==
    {[datname |-> DbName, datistemplate |-> FALSE],
     [datname |-> OtherDbName, datistemplate |-> FALSE],
     [datname |-> <<"p", "o", "s", "t", "g", "r", "e", "s">>, datistemplate |-> FALSE],
     [datname |-> <<"t", "e", "m", "p", "l", "a", "t", "e">>, datistemplate |-> TRUE]}

\* pg_attribute: the columns of a relation, by attribute number.
Attributes(rel) ==
    IF rel = TableA
    THEN <<[attname |-> "id", typ |-> "integer", notnull |-> TRUE, def |-> Null],
           [attname |-> "rev", typ |-> "integer", notnull |-> TRUE, def |-> Null],
           [attname |-> "parent_rev", typ |-> "integer", notnull |-> FALSE, def |-> Null],
           [attname |-> "parent_id", typ |-> "integer", notnull |-> FALSE, def |-> Null]>>
    ELSE <<[attname |-> "id", typ |-> "integer", notnull |-> TRUE, def |-> Null],
           [attname |-> "name", typ |-> "text", notnull |-> FALSE, def |-> "'anon'"]>>

\* pg_constraint: the constraints of relation rel of schema s.
Constraints(cat, s, rel) ==
    IF rel = TableA
    THEN {[conname |-> <<"a", "_", "p", "k", "e", "y">>, contype |-> "p",
           conkey |-> <<1, 2>>, confkey |-> <<>>, confnsp |-> <<>>, confrel |-> <<>>,
           confupdtype |-> " ", confdeltype |-> " "],
          [conname |-> <<"a", "_", "f", "k">>, contype |-> "f",
           conkey |-> cat.conkey, confkey |-> cat.confkey, confnsp |-> s, confrel |-> rel,
           confupdtype |-> "a", confdeltype |-> "c"]}
    ELSE IF rel = TableB
    THEN {[conname |-> <<"b", "_", "c", "h", "k">>, contype |-> "c",
           conkey |-> <<1>>, confkey |-> <<>>, confnsp |-> <<>>, confrel |-> <<>>,
           confupdtype |-> " ", confdeltype |-> " "],
          [conname |-> <<"b", "_", "k", "e", "y">>, contype |-> "u",
           conkey |-> <<1>>, confkey |-> <<>>, confnsp |-> <<>>, confrel |-> <<>>,
           confupdtype |-> " ", confdeltype |-> " "],
          [conname |-> <<"b", "_", "e", "x", "c", "l">>, contype |-> "x",
           conkey |-> <<1>>, confkey |-> <<>>, confnsp |-> <<>>, confrel |-> <<>>,
           confupdtype |-> " ", confdeltype |-> " "]}
    ELSE {}

\* pg_trigger: "a" has a BEFORE UPDATE row trigger and the internal trigger of
\* its foreign key.
Triggers(s, rel) ==
    IF rel = TableA
    THEN {[tgname |-> <<"a", "_", "t", "o", "u", "c", "h">>, tgenabled |-> "O",
           tgtype |-> 19, tgisinternal |-> FALSE, proname |-> FuncF, pronsp |-> s],
          [tgname |-> <<"r", "i", "_", "a">>, tgenabled |-> "O",
           tgtype |-> 5, tgisinternal |-> TRUE, proname |-> FuncG, pronsp |-> s]}
    ELSE {}

\* pg_index / pg_indexes: the indexes behind the primary key and the unique key.
Indexes(rel) ==
    IF rel = TableA
    THEN {[indexname |-> <<"a", "_", "p", "k", "e", "y">>, indkey |-> <<1, 2>>,
           indisunique |-> TRUE, indisprimary |-> TRUE, indisvalid |-> TRUE]}
    ELSE IF rel = TableB
    THEN {[indexname |-> <<"b", "_", "k", "e", "y">>, indkey |-> <<1>>,
           indisunique |-> TRUE, indisprimary |-> FALSE, indisvalid |-> TRUE]}
    ELSE {}

HasRelation(cat, s, rel) ==
    \E c \in cat.pg_class : c.nsp = s /\ c.relname = rel

\* pg_proc: a schema that holds "a" holds the trigger function f (plpgsql),
\* g (written in C) and the aggregate h (internal).
Procs(cat, s) ==
    IF HasRelation(cat, s, TableA)
    THEN {[proname |-> FuncF, args |-> "", typname |-> "trigger", prosrc |-> "BEGIN ... END",
           provolatile |-> "v", proisstrict |-> FALSE, proretset |-> FALSE,
           prokind |-> "f", lanname |-> "plpgsql"],
          [proname |-> FuncG, args |-> "", typname |-> "trigger", prosrc |-> "RI_FKey_check",
           provolatile |-> "v", proisstrict |-> TRUE, proretset |-> FALSE,
           prokind |-> "f", lanname |-> "c"],
          [proname |-> FuncH, args |-> "integer", typname |-> "int8", prosrc |-> "aggregate_dummy",
           provolatile |-> "i", proisstrict |-> FALSE, proretset |-> FALSE,
           prokind |-> "a", lanname |-> "internal"]}
    ELSE {}

-----------------------------------------------------------------------------
(* The session's search path decides how the catalog's deparsing functions *)
(* (pg_get_constraintdef, pg_get_viewdef) print a relation: by its bare    *)
(* name when the relation is visible, schema-qualified when it is not.     *)

DefaultPath == <<DollarUser, Public>>
InitialPaths == {DefaultPath, <<App>>}

\* The schemas searched: pg_catalog first, then the entries that exist.
EffectivePath(cat, path) ==
    <<PgCatalog>> \o
        SelectSeq([i \in 1..Len(path) |->
                       IF path[i] = DollarUser THEN SessionUser ELSE path[i]],
                  LAMBDA x : x \in cat.pg_namespace)

\* Visible: the first schema of the path holding a relation of that name is s.
Visible(cat, path, s, rel) ==
    LET eff  == EffectivePath(cat, path)
        hits == {i \in 1..Len(eff) : HasRelation(cat, eff[i], rel)}
    IN  /\ hits # {}
        /\ eff[CHOOSE i \in hits : \A j \in hits : i <= j] = s

RelationName(cat, path, s, rel) ==
    IF Visible(cat, path, s, rel) THEN <<rel>> ELSE <<s, rel>>

AttNames(rel, key) == [i \in 1..Len(key) |-> Attributes(rel)[key[i]].attname]

\* pg_get_constraintdef(con.oid)
ConstraintDef(cat, path, rel, con) ==
    IF con.contype = "f"
    THEN [clause |-> "FOREIGN KEY", columns |-> AttNames(rel, con.conkey),
          references |-> RelationName(cat, path, con.confnsp, con.confrel),
          refcolumns |-> AttNames(con.confrel, con.confkey)]
    ELSE [clause |-> con.contype, columns |-> AttNames(rel, con.conkey),
          references |-> <<>>, refcolumns |-> <<>>]

-----------------------------------------------------------------------------
(* The SQL statements of extractor.js: the rows each returns, computed     *)
(* from the catalog (and, where the statement deparses a definition, from  *)
(* the session's search path).                                             *)

\* SELECT current_database() as db_name
CurrentDatabaseQuery == <<[db_name |-> DbName]>>

\* SELECT datname FROM pg_database WHERE ... ORDER BY datname
DatabasesQuery ==
    AsRows(Keys({x \in PgDatabase :
                     /\ x.datistemplate = FALSE
                     /\ x.datname # <<"p", "o", "s", "t", "g", "r", "e", "s">>},
                "datname"),
           "datname")

\* SELECT nspname AS schema_name FROM pg_namespace
\* WHERE nspname NOT LIKE 'pg_%' AND nspname != 'information_schema' ORDER BY nspname
SchemasQuery(cat) ==
    AsRows(OrderBy({n \in cat.pg_namespace :
                        ~Like(n, PgPattern) /\ n # InformationSchema}),
           "schema_name")

\* SELECT table_name FROM information_schema.tables
\* WHERE table_schema = $1 AND table_type = 'BASE TABLE' ORDER BY table_name
TablesQuery(cat, s) ==
    AsRows(Keys({x \in cat.pg_class : x.nsp = s /\ x.relkind = "r"}, "relname"),
           "table_name")

\* SELECT column_name, ... FROM information_schema.columns ... ORDER BY ordinal_position
ColumnsQuery(cat, s, t) ==
    IF HasRelation(cat, s, t)
    THEN [i \in 1..Len(Attributes(t)) |->
             LET a == Attributes(t)[i]
             IN  [column_name |-> a.attname,
                  data_type |-> a.typ,
                  is_nullable |-> IF a.notnull THEN "NO" ELSE "YES",
                  column_default |-> a.def,
                  character_maximum_length |-> Null,
                  numeric_precision |-> IF a.typ = "integer" THEN "32" ELSE Null,
                  numeric_scale |-> IF a.typ = "integer" THEN "0" ELSE Null]]
    ELSE <<>>

\* CASE WHEN con.contype = 'p' THEN 'PRIMARY KEY' ... ELSE con.contype::text END
ConstraintTypeDesc(contype) ==
    CASE contype = "p" -> "PRIMARY KEY"
      [] contype = "u" -> "UNIQUE"
      [] contype = "c" -> "CHECK"
      [] contype = "f" -> "FOREIGN KEY"
      [] OTHER         -> contype

\* SELECT con.conname AS constraint_name, con.contype AS constraint_type,
\*        CASE ... END AS constraint_type_desc, pg_get_constraintdef(con.oid) AS definition
\* ... ORDER BY con.conname
ConstraintsQuery(cat, path, s, t) ==
    LET S == IF HasRelation(cat, s, t) THEN Constraints(cat, s, t) ELSE {}
    IN  [i \in 1..Len(Keys(S, "conname")) |->
            LET c == RowOf(S, "conname", Keys(S, "conname")[i])
            IN  [constraint_name      |-> c.conname,
                 constraint_type      |-> c.contype,
                 constraint_type_desc |-> ConstraintTypeDesc(c.contype),
                 definition           |-> ConstraintDef(cat, path, t, c)]]

\* The attribute numbers of a relation in the order a scan of pg_attribute
\* returns them when the query has no ORDER BY: by attribute number, which is
\* the order of the index on (attrelid, attnum) and of the rows CREATE TABLE
\* wrote.  No clause of the query ties that order to the order of the key.
AttributeScan(rel) == [i \in 1..Len(Attributes(rel)) |-> i]

\* ARRAY(SELECT attname FROM pg_attribute WHERE attrelid = <rel> AND attnum = ANY(<key>))
KeyColumnArray(cat, rel, key) ==
    LET hits == SelectSeq(AttributeScan(rel), LAMBDA a : a \in Range(key))
    IN  [i \in 1..Len(hits) |-> Attributes(rel)[hits[i]].attname]

\* CASE con.confupdtype WHEN 'a' THEN 'NO ACTION' ... ELSE NULL END
RuleLabel(code) ==
    CASE code = "a" -> "NO ACTION"
      [] code = "r" -> "RESTRICT"
      [] code = "c" -> "CASCADE"
      [] code = "n" -> "SET NULL"
      [] code = "d" -> "SET DEFAULT"
      [] OTHER      -> Null

\* SELECT con.conname AS constraint_name, ... WHERE ... con.contype = 'f' ORDER BY con.conname
ForeignKeysQuery(cat, s, t) ==
    LET S == {c \in (IF HasRelation(cat, s, t) THEN Constraints(cat, s, t) ELSE {}) :
                  c.contype = "f"}
    IN  [i \in 1..Len(Keys(S, "conname")) |->
            LET c == RowOf(S, "conname", Keys(S, "conname")[i])
            IN  [constraint_name |-> c.conname,
                 source_schema   |-> s,
                 source_table    |-> t,
                 source_columns  |-> KeyColumnArray(cat, t, c.conkey),
                 target_schema   |-> c.confnsp,
                 target_table    |-> c.confrel,
                 target_columns  |-> KeyColumnArray(cat, c.confrel, c.confkey),
                 update_rule     |-> RuleLabel(c.confupdtype),
                 delete_rule     |-> RuleLabel(c.confdeltype)]]

\* (tgtype & (1 << k)) > 0
Bit(n, k) == (n \div (2 ^ k)) % 2 = 1

\* SELECT trg.tgname AS trigger_name, ... WHERE NOT trg.tgisinternal ... ORDER BY trigger_name
TriggersQuery(cat, s, t) ==
    LET S == {g \in (IF HasRelation(cat, s, t) THEN Triggers(s, t) ELSE {}) :
                  ~g.tgisinternal}
    IN  [i \in 1..Len(Keys(S, "tgname")) |->
            LET g == RowOf(S, "tgname", Keys(S, "tgname")[i])
            IN  [trigger_name    |-> g.tgname,
                 enabled         |-> g.tgenabled,
                 level           |-> IF Bit(g.tgtype, 0) THEN "ROW" ELSE "STATEMENT",
                 timing          |-> IF Bit(g.tgtype, 1) THEN "BEFORE"
                                     ELSE IF Bit(g.tgtype, 6) THEN "INSTEAD OF"
                                     ELSE "AFTER",
                 insert_event    |-> Bit(g.tgtype, 2),
                 delete_event    |-> Bit(g.tgtype, 3),
                 update_event    |-> Bit(g.tgtype, 4),
                 truncate_event  |-> Bit(g.tgtype, 5),
                 function_name   |-> g.proname,
                 function_schema |-> g.pronsp,
                 definition      |-> <<"CREATE TRIGGER", g.tgname, <<s, t>>>>]]

\* SELECT table_name AS view_name, view_definition FROM information_schema.views
\* WHERE table_schema = $1 ORDER BY table_name
\* Every view of the catalog selects from table "a" of its own schema.
ViewsQuery(cat, path, s) ==
    LET S == {c \in cat.pg_class : c.nsp = s /\ c.relkind = "v"}
    IN  [i \in 1..Len(Keys(S, "relname")) |->
            [view_name       |-> Keys(S, "relname")[i],
             view_definition |-> <<"SELECT id FROM", RelationName(cat, path, s, TableA)>>]]

\* CASE WHEN p.prokind = 'f' THEN 'FUNCTION' ... ELSE p.prokind::text END
FunctionTypeLabel(prokind) ==
    CASE prokind = "f" -> "FUNCTION"
      [] prokind = "p" -> "PROCEDURE"
      [] prokind = "a" -> "AGGREGATE"
      [] prokind = "w" -> "WINDOW"
      [] OTHER         -> prokind

\* SELECT p.proname AS function_name, ... WHERE n.nspname = $1
\* AND l.lanname NOT IN ('internal', 'c') ORDER BY function_name
FunctionsQuery(cat, s) ==
    LET S == {f \in Procs(cat, s) : f.lanname \notin {"internal", "c"}}
    IN  [i \in 1..Len(Keys(S, "proname")) |->
            LET f == RowOf(S, "proname", Keys(S, "proname")[i])
            IN  [function_name      |-> f.proname,
                 function_arguments |-> f.args,
                 return_type        |-> f.typname,
                 function_body      |-> f.prosrc,
                 volatility         |-> f.provolatile,
                 is_strict          |-> f.proisstrict,
                 returns_set        |-> f.proretset,
                 function_type      |-> FunctionTypeLabel(f.prokind)]]

\* SELECT i.indexname AS index_name, ...,
\*   (SELECT array_agg(a.attname ORDER BY array_position(ix.indkey, a.attnum)) ...)
\* ... ORDER BY i.indexname
IndexesQuery(cat, s, t) ==
    LET S == IF HasRelation(cat, s, t) THEN Indexes(t) ELSE {}
    IN  [i \in 1..Len(Keys(S, "indexname")) |->
            LET x == RowOf(S, "indexname", Keys(S, "indexname")[i])
            IN  [index_name       |-> x.indexname,
                 index_definition |-> <<IF x.indisunique THEN "CREATE UNIQUE INDEX"
                                                         ELSE "CREATE INDEX",
                                        x.indexname, <<s, t>>, AttNames(t, x.indkey)>>,
                 column_names     |-> AttNames(t, x.indkey),
                 tablespace_name  |-> Null,
                 is_unique        |-> x.indisunique,
                 is_primary       |-> x.indisprimary,
                 is_valid         |-> x.indisvalid]]

-----------------------------------------------------------------------------
(* The connection.  A command is the statement and its parameters.         *)

Cmd(q, s, t) == [q |-> q, schema |-> s, table |-> t]
NoCmd == Cmd("none", <<>>, <<>>)

\* What the server answers to a command that succeeds.
Exec(cat, path, c) ==
    CASE c.q = "current_database" -> CurrentDatabaseQuery
      [] c.q = "databases"        -> DatabasesQuery
      [] c.q = "set_search_path"  -> <<>>
      [] c.q = "schemas"          -> SchemasQuery(cat)
      [] c.q = "tables"           -> TablesQuery(cat, c.schema)
      [] c.q = "columns"          -> ColumnsQuery(cat, c.schema, c.table)
      [] c.q = "constraints"      -> ConstraintsQuery(cat, path, c.schema, c.table)
      [] c.q = "foreignKeys"      -> ForeignKeysQuery(cat, c.schema, c.table)
      [] c.q = "triggers"         -> TriggersQuery(cat, c.schema, c.table)
      [] c.q = "indexes"          -> IndexesQuery(cat, c.schema, c.table)
      [] c.q = "views"            -> ViewsQuery(cat, path, c.schema)
      [] c.q = "functions"        -> FunctionsQuery(cat, c.schema)

\* The errors a command can be rejected with.
Errors == {[message |-> "permission denied", code |-> "42501"],
           [message |-> "canceling statement due to user request", code |-> "57014"]}

-----------------------------------------------------------------------------
(* extractor.js: the accessors' return values.                             *)

getColumns(rows)     == rows
getConstraints(rows) == rows
getForeignKeys(rows) == rows
getTriggers(rows)    == rows
getIndexes(rows)     == rows

getViews(rows) ==
    [i \in 1..Len(rows) |->
        [name |-> rows[i].view_name, definition |-> rows[i].view_definition]]

getFunctions(rows) ==
    [i \in 1..Len(rows) |->
        [name        |-> rows[i].function_name,
         arguments   |-> rows[i].function_arguments,
         return_type |-> rows[i].return_type,
         body        |-> rows[i].function_body,
         type        |-> rows[i].function_type,
         volatility  |-> rows[i].volatility,
         is_strict   |-> rows[i].is_strict,
         returns_set |-> rows[i].returns_set]]

\* What the accessor behind command c returns when the command returns rows.
Returned(c, rows) ==
    CASE c.q = "columns"     -> getColumns(rows)
      [] c.q = "constraints" -> getConstraints(rows)
      [] c.q = "foreignKeys" -> getForeignKeys(rows)
      [] c.q = "triggers"    -> getTriggers(rows)
      [] c.q = "indexes"     -> getIndexes(rows)
      [] c.q = "views"       -> getViews(rows)
      [] c.q = "functions"   -> getFunctions(rows)

\* The properties of the object literals of getTables and getSchemas, in the
\* order they are written: JavaScript evaluates them (and so sends their
\* commands) in that order.
TableFieldsSwapped == <<"columns", "foreignKeys", "constraints", "triggers", "indexes">>
TableFields  == <<"columns", "constraints", "foreignKeys", "triggers", "indexes">>
SchemaFields == <<"tables", "views", "functions">>

IndexOf(seq, x) == CHOOSE i \in 1..Len(seq) : seq[i] = x

\* The values of the properties evaluated so far (not yet an object).
NoTableFields ==
    [columns |-> <<>>, constraints |-> <<>>, foreignKeys |-> <<>>,
     triggers |-> <<>>, indexes |-> <<>>]
NoSchemaFields == [tables |-> <<>>, views |-> <<>>, functions |-> <<>>]

\* tables.push({name: tableName, columns: ..., ...})
TableEntry(name, f) ==
    [name |-> name, columns |-> f.columns, constraints |-> f.constraints,
     foreignKeys |-> f.foreignKeys, triggers |-> f.triggers, indexes |-> f.indexes]

\* An entry that carries only the lists that have elements.
SchemaEntrySparse(name, f) ==
    IF f.tables = <<>>
    THEN [name |-> name, views |-> f.views, functions |-> f.functions]
    ELSE [name |-> name, tables |-> f.tables, views |-> f.views, functions |-> f.functions]

\* schemas.push({name: schemaName, tables: ..., views: ..., functions: ...})
SchemaEntry(name, f) ==
    [name |-> name, tables |-> f.tables, views |-> f.views, functions |-> f.functions]

\* One entry for each row of getDatabases, not only for the current database.
BuildResultAllDatabases(db, schemas) ==
    [databases |-> [i \in 1..Len(DatabasesQuery) |->
                       [name |-> DatabasesQuery[i].datname, schemas |-> schemas]]]

\* const result = {databases: [{name: currentDb, schemas: ...}]}
BuildResult(db, schemas) ==
    [databases |-> <<[name |-> db, schemas |-> schemas]>>]

\* A module-level array that outlives the call: what the previous call pushed
\* is still there.
NewSchemaListKept ==
    IF prev.status = "returned" THEN prev.doc.databases[1].schemas ELSE <<>>

\* const schemas = []
NewSchemaList == <<>>

\* const tables = []
NewTableList == <<>>

NoGs == [rows |-> <<>>, i |-> 0, schemas |-> <<>>, cur |-> NoSchemaFields]
NoGt == [rows |-> <<>>, i |-> 0, tables |-> <<>>, cur |-> NoTableFields]

NoFault == [cmd |-> NoCmd]
NoOutcome == [status |-> "none"]
Pending == [status |-> "pending"]

\* return result
Return(doc) == [status |-> "returned", doc |-> doc, warnings |-> warnings]

\* A catch that returns what has been collected instead of throwing.
ExtractCatchReturnsPartial(error) ==
    [status |-> "returned", doc |-> [databases |-> <<[name |-> currentDb, schemas |-> gs.schemas]>>],
     warnings |-> warnings]

\* catch (error) { console.error(...); throw error; }
ExtractCatch(error) == [status |-> "threw", error |-> error, warnings |-> warnings]

-----------------------------------------------------------------------------
(* The state machine.                                                      *)

Init ==
    /\ catalog \in Catalogs
    /\ searchPath \in InitialPaths
    /\ inflight = {}
    /\ awaiting = NoCmd
    /\ log = <<>>
    /\ warnings = 0
    /\ currentDb = <<>>
    /\ gs = NoGs
    /\ gt = NoGt
    /\ fault = NoFault
    /\ outcome = NoOutcome
    /\ prev = NoOutcome

\* client.query(c), awaited: the command is sent and the run suspends on it.
Send(c) ==
    /\ inflight' = (inflight \ {awaiting}) \cup {c}
    /\ awaiting' = c
    /\ log' = Append(log, c)
    /\ outcome' = outcome
    /\ currentDb' = currentDb

\* extractStructure settles: every frame is gone.
Finish(o) ==
    /\ inflight' = inflight \ {awaiting}
    /\ awaiting' = NoCmd
    /\ log' = log
    /\ outcome' = o
    /\ currentDb' = <<>>
    /\ gs' = NoGs
    /\ gt' = NoGt

\* The answer to the awaited command has arrived.
Answered(q) == awaiting \in inflight /\ awaiting.q = q

Rows == Exec(catalog, searchPath, awaiting)

\* extractStructure(client) is called on the idle connection.
Call ==
    /\ awaiting = NoCmd
    /\ prev' = outcome
    /\ outcome' = Pending
    /\ fault' = NoFault
    /\ warnings' = 0
    /\ inflight' = inflight \cup {Cmd("current_database", <<>>, <<>>)}
    /\ awaiting' = Cmd("current_database", <<>>, <<>>)
    /\ log' = <<Cmd("current_database", <<>>, <<>>)>>
    /\ UNCHANGED <<catalog, searchPath, currentDb, gs, gt>>

\* extractStructure resumes with the database name and calls getSchemas, which
\* sends the SET search_path statement.
CurrentDbReplied ==
    /\ Answered("current_database")
    /\ inflight' = (inflight \ {awaiting}) \cup {Cmd("set_search_path", <<>>, <<>>)}
    /\ awaiting' = Cmd("set_search_path", <<>>, <<>>)
    /\ log' = Append(log, Cmd("set_search_path", <<>>, <<>>))
    /\ currentDb' = Rows[1].db_name
    /\ UNCHANGED <<catalog, searchPath, warnings, gs, gt, fault, outcome, prev>>

\* SET search_path succeeded: the session's path is now "$user", public.
SearchPathSet ==
    /\ Answered("set_search_path")
    /\ searchPath' = DefaultPath
    /\ Send(Cmd("schemas", <<>>, <<>>))
    /\ UNCHANGED <<catalog, warnings, gs, gt, fault, prev>>

\* SET search_path without its try/catch: the failure ends the run.
SearchPathFailedUncaught(e) ==
    /\ Answered("set_search_path")
    /\ fault' = [cmd |-> awaiting, error |-> e]
    /\ inflight' = inflight \ {awaiting}
    /\ awaiting' = NoCmd
    /\ outcome' = [status |-> "threw", error |-> e, warnings |-> warnings]
    /\ currentDb' = <<>>
    /\ UNCHANGED <<catalog, searchPath, log, warnings, gs, gt, prev>>

\* SET search_path failed: catch (err) { console.warn(...) }, then the schema query.
SearchPathFailed(e) ==
    /\ Answered("set_search_path")
    /\ warnings' = warnings + 1
    /\ Send(Cmd("schemas", <<>>, <<>>))
    /\ UNCHANGED <<catalog, searchPath, gs, gt, fault, prev>>

\* A property of the schema object literal has its value: the next property's
\* accessor is called, or the entry is pushed and the loop goes on or ends.
SchemaStep(field, value) ==
    LET k       == IndexOf(SchemaFields, field)
        name    == gs.rows[gs.i].schema_name
        cur     == [gs.cur EXCEPT ![field] = value]
        schemas == Append(gs.schemas, SchemaEntry(name, cur))
    IN  IF k < Len(SchemaFields)
        THEN /\ gs' = [gs EXCEPT !.cur = cur]
             /\ gt' = NoGt
             /\ Send(Cmd(SchemaFields[k + 1], name, <<>>))
        ELSE IF gs.i < Len(gs.rows)
        THEN /\ gs' = [gs EXCEPT !.i = @ + 1, !.schemas = schemas, !.cur = NoSchemaFields]
             /\ gt' = NoGt
             /\ Send(Cmd(SchemaFields[1], gs.rows[gs.i + 1].schema_name, <<>>))
        ELSE Finish(Return(BuildResult(currentDb, schemas)))

\* A property of the table object literal has its value.
TableStep(field, value) ==
    LET k      == IndexOf(TableFields, field)
        schema == gs.rows[gs.i].schema_name
        name   == gt.rows[gt.i].table_name
        cur    == [gt.cur EXCEPT ![field] = value]
        tables == Append(gt.tables, TableEntry(name, cur))
    IN  IF k < Len(TableFields)
        THEN /\ gt' = [gt EXCEPT !.cur = cur]
             /\ gs' = gs
             /\ Send(Cmd(TableFields[k + 1], schema, name))
        ELSE IF gt.i < Len(gt.rows)
        THEN /\ gt' = [gt EXCEPT !.i = @ + 1, !.tables = tables, !.cur = NoTableFields]
             /\ gs' = gs
             /\ Send(Cmd(TableFields[1], schema, gt.rows[gt.i + 1].table_name))
        ELSE SchemaStep("tables", tables)

\* getSchemas resumes with the schema rows and starts its loop.
SchemasReplied ==
    /\ Answered("schemas")
    /\ IF Rows = <<>>
       THEN Finish(Return(BuildResult(currentDb, NewSchemaList)))
       ELSE /\ gs' = [rows |-> Rows, i |-> 1, schemas |-> NewSchemaList, cur |-> NoSchemaFields]
            /\ gt' = NoGt
            /\ Send(Cmd(SchemaFields[1], Rows[1].schema_name, <<>>))
    /\ UNCHANGED <<catalog, searchPath, warnings, fault, prev>>

\* getTables resumes with the table rows and starts its loop.
TablesReplied ==
    /\ Answered("tables")
    /\ IF Rows = <<>>
       THEN SchemaStep("tables", NewTableList)
       ELSE /\ gt' = [rows |-> Rows, i |-> 1, tables |-> NewTableList, cur |-> NoTableFields]
            /\ gs' = gs
            /\ Send(Cmd(TableFields[1], awaiting.schema, Rows[1].table_name))
    /\ UNCHANGED <<catalog, searchPath, warnings, fault, prev>>

ColumnsReplied ==
    /\ Answered("columns")
    /\ TableStep("columns", Returned(awaiting, Rows))
    /\ UNCHANGED <<catalog, searchPath, warnings, fault, prev>>

ConstraintsReplied ==
    /\ Answered("constraints")
    /\ TableStep("constraints", Returned(awaiting, Rows))
    /\ UNCHANGED <<catalog, searchPath, warnings, fault, prev>>

ForeignKeysReplied ==
    /\ Answered("foreignKeys")
    /\ TableStep("foreignKeys", Returned(awaiting, Rows))
    /\ UNCHANGED <<catalog, searchPath, warnings, fault, prev>>

TriggersReplied ==
    /\ Answered("triggers")
    /\ TableStep("triggers", Returned(awaiting, Rows))
    /\ UNCHANGED <<catalog, searchPath, warnings, fault, prev>>

IndexesReplied ==
    /\ Answered("indexes")
    /\ TableStep("indexes", Returned(awaiting, Rows))
    /\ UNCHANGED <<catalog, searchPath, warnings, fault, prev>>

ViewsReplied ==
    /\ Answered("views")
    /\ SchemaStep("views", Returned(awaiting, Rows))
    /\ UNCHANGED <<catalog, searchPath, warnings, fault, prev>>

FunctionsReplied ==
    /\ Answered("functions")
    /\ SchemaStep("functions", Returned(awaiting, Rows))
    /\ UNCHANGED <<catalog, searchPath, warnings, fault, prev>>

\* A rejection that some accessor swallows without settling: the run stays
\* suspended with nothing left in flight.
QueryFailedSwallowed(e) ==
    /\ awaiting \in inflight
    /\ awaiting.q # "set_search_path"
    /\ fault' = [cmd |-> awaiting, error |-> e]
    /\ inflight' = inflight \ {awaiting}
    /\ UNCHANGED <<catalog, searchPath, awaiting, log, warnings, currentDb, gs, gt,
                   outcome, prev>>

\* Any other command is rejected with e: no accessor catches, so the rejection
\* unwinds getTables and getSchemas and reaches the catch of extractStructure.
QueryFailed(e) ==
    /\ awaiting \in inflight
    /\ awaiting.q # "set_search_path"
    /\ fault' = [cmd |-> awaiting, error |-> e]
    /\ Finish(ExtractCatch(e))
    /\ UNCHANGED <<catalog, searchPath, warnings, prev>>

Next ==
    \/ Call
    \/ CurrentDbReplied
    \/ SearchPathSet
    \/ \E e \in Errors : SearchPathFailed(e)
    \/ SchemasReplied
    \/ TablesReplied
    \/ ColumnsReplied
    \/ ConstraintsReplied
    \/ ForeignKeysReplied
    \/ TriggersReplied
    \/ IndexesReplied
    \/ ViewsReplied
    \/ FunctionsReplied
    \/ \E e \in Errors : QueryFailed(e)

Spec == Init /\ [][Next]_vars

\* The connection answers the awaited command: with an error, or with rows.
Response ==
    \/ \E e \in Errors : QueryFailed(e)
    \/ \E e \in Errors : SearchPathFailed(e)
    \/ SearchPathSet
    \/ CurrentDbReplied
    \/ SchemasReplied
    \/ TablesReplied
    \/ ColumnsReplied
    \/ ConstraintsReplied
    \/ ForeignKeysReplied
    \/ TriggersReplied
    \/ IndexesReplied
    \/ ViewsReplied
    \/ FunctionsReplied

\* Every command sent on the connection is eventually answered; nothing obliges
\* a caller to call extractStructure again.
FairSpec == Spec /\ WF_vars(Response)

-----------------------------------------------------------------------------
(* Properties.                                                             *)

\* The document of a whole traversal of catalog cat with every deparsed
\* definition printed under search path `path`, computed in one piece.
TableUnder(cat, path, s, t) ==
    [name        |-> t,
     columns     |-> ColumnsQuery(cat, s, t),
     constraints |-> ConstraintsQuery(cat, path, s, t),
     foreignKeys |-> ForeignKeysQuery(cat, s, t),
     triggers    |-> TriggersQuery(cat, s, t),
     indexes     |-> IndexesQuery(cat, s, t)]

SchemaUnder(cat, path, s) ==
    [name      |-> s,
     tables    |-> [i \in 1..Len(TablesQuery(cat, s)) |->
                       TableUnder(cat, path, s, TablesQuery(cat, s)[i].table_name)],
     views     |-> getViews(ViewsQuery(cat, path, s)),
     functions |-> getFunctions(FunctionsQuery(cat, s))]

DocumentUnder(cat, path) ==
    [databases |->
        <<[name    |-> DbName,
           schemas |-> [i \in 1..Len(SchemasQuery(cat)) |->
                           SchemaUnder(cat, path, SchemasQuery(cat)[i].schema_name)]]>>]

Returned_ == outcome.status = "returned"
Threw     == outcome.status = "threw"

\* The schema entries of the returned document.
DocSchemas == outcome.doc.databases[1].schemas

\* Some command of the log with statement q on schema s.
Sent(q, s) == \E i \in 1..Len(log) : log[i].q = q /\ log[i].schema = s

\* C1: when a command other than the search-path statement is rejected, at any
\* point of the traversal, extractStructure throws that very error and returns
\* no document; it throws only such an error.
C1_FailurePropagatesUnchanged ==
    /\ fault # NoFault => Threw /\ outcome.error = fault.error
    /\ Threw => fault # NoFault /\ outcome.error = fault.error
    /\ Returned_ => fault = NoFault

\* A rejection of getColumns in the second schema, after a first schema was
\* walked to its end.
C1_Witness ==
    /\ Threw
    /\ fault.cmd.q = "columns"
    /\ fault.cmd.schema = Public
    /\ Sent("functions", App)

\* C2 as stated: a rejected search-path statement is caught and logged, the
\* schema query follows, it is the only rejection that does not end the run,
\* and the document returned is the one of a run whose search-path statement
\* succeeded.
C2_SearchPathFailureSameDocument ==
    /\ warnings > 0 => Len(log) >= 3 /\ log[3].q = "schemas"
    /\ Threw => fault # NoFault /\ fault.cmd.q # "set_search_path"
    /\ fault # NoFault => Threw
    /\ (Returned_ /\ outcome.warnings > 0)
           => outcome.doc = DocumentUnder(catalog, DefaultPath)

\* C2 as amended: the document returned after a rejected search-path statement
\* is the one of the same traversal with the definitions deparsed under the
\* session's unchanged search path.
C2_SearchPathFailureTolerated ==
    /\ warnings > 0 => Len(log) >= 3 /\ log[3].q = "schemas"
    /\ Threw => fault # NoFault /\ fault.cmd.q # "set_search_path"
    /\ fault # NoFault => Threw
    /\ (Returned_ /\ outcome.warnings > 0)
           => outcome.doc = DocumentUnder(catalog, searchPath)
    /\ (Returned_ /\ outcome.warnings = 0)
           => outcome.doc = DocumentUnder(catalog, DefaultPath)

\* A run that logged the warning and returned a document with tables in it.
C2_Witness ==
    /\ Returned_
    /\ outcome.warnings > 0
    /\ \E i \in 1..Len(DocSchemas) : DocSchemas[i].tables # <<>>

\* The place of a command in the program: the three root commands, then schema
\* by schema; within a schema tables, the tables' sub-queries table by table in
\* the order columns, constraints, foreign keys, triggers, indexes, then views,
\* then functions.
RootRank(q) ==
    CASE q = "current_database" -> 1
      [] q = "set_search_path"  -> 2
      [] q = "schemas"          -> 3
      [] OTHER                  -> 4

PhaseRank(c) ==
    CASE c.q = "tables"    -> 1
      [] c.q = "views"     -> 3
      [] c.q = "functions" -> 4
      [] OTHER             -> 2

FieldRank(q) ==
    CASE q = "columns"     -> 1
      [] q = "constraints" -> 2
      [] q = "foreignKeys" -> 3
      [] q = "triggers"    -> 4
      [] q = "indexes"     -> 5
      [] OTHER             -> 6

Before(c, d) ==
    IF c.schema = <<>> THEN d.schema # <<>> \/ RootRank(c.q) < RootRank(d.q)
    ELSE IF d.schema = <<>> THEN FALSE
    ELSE IF c.schema # d.schema THEN NameLess(c.schema, d.schema)
    ELSE IF PhaseRank(c) # PhaseRank(d) THEN PhaseRank(c) < PhaseRank(d)
    ELSE /\ PhaseRank(c) = 2
         /\ \/ NameLess(c.table, d.table)
            \/ c.table = d.table /\ FieldRank(c.q) < FieldRank(d.q)

\* C3: at most one command of the run is in flight, it is the last one sent,
\* and the commands are sent in program order.
C3_SequentialProgramOrder ==
    /\ Cardinality(inflight) <= 1
    /\ inflight \subseteq {awaiting}
    /\ inflight # {} => log # <<>> /\ log[Len(log)] \in inflight
    /\ \A i, j \in 1..Len(log) : i < j => Before(log[i], log[j])

\* A run over two schemas of two tables each, walked to the end.
C3_Witness ==
    /\ Returned_
    /\ Len(log) = 29

HasPgPrefix(n) == Len(n) >= 3 /\ SubSeq(n, 1, 3) = <<"p", "g", "_">>

NonSystemSchemas(cat) ==
    {n \in cat.pg_namespace : ~HasPgPrefix(n) /\ n # InformationSchema}

\* C5: the schemas of the document are the non-system schemas of the catalog,
\* each once, ascending by name, one entry per row of the schema query in the
\* query's order.
C5_SchemasListed ==
    Returned_ =>
        /\ Column(DocSchemas, "name") = OrderBy(NonSystemSchemas(catalog))
        /\ Column(DocSchemas, "name") = Column(SchemasQuery(catalog), "schema_name")

\* The pg_constraint row behind a foreign-key entry of the document.
ConstraintOf(cat, fk) ==
    CHOOSE c \in Constraints(cat, fk.source_schema, fk.source_table) :
        c.conname = fk.constraint_name

\* C6: in every foreign key of the document source_columns and target_columns
\* have the same length and source_columns[i], target_columns[i] are the
\* columns conkey[i], confkey[i] of the constraint.
C6_ForeignKeyColumnsCorrespond ==
    Returned_ =>
        \A i \in 1..Len(DocSchemas) :
            \A j \in 1..Len(DocSchemas[i].tables) :
                LET fks == DocSchemas[i].tables[j].foreignKeys
                IN  \A k \in 1..Len(fks) :
                        LET con == ConstraintOf(catalog, fks[k])
                        IN  /\ Len(fks[k].source_columns) = Len(fks[k].target_columns)
                            /\ fks[k].source_columns = AttNames(fks[k].source_table, con.conkey)
                            /\ fks[k].target_columns = AttNames(fks[k].target_table, con.confkey)

IsList(x) == DOMAIN x = 1..Len(x)

\* C7: every schema entry has the lists tables, views and functions, every
\* table entry the lists columns, constraints, foreignKeys, triggers and
\* indexes; a schema without tables has tables = <<>> and its views and
\* functions were fetched and attached.
C7_ChildListsAlwaysPresent ==
    Returned_ =>
        \A i \in 1..Len(DocSchemas) :
            LET e == DocSchemas[i]
            IN  /\ {"tables", "views", "functions"} \subseteq DOMAIN e
                /\ IsList(e.tables) /\ IsList(e.views) /\ IsList(e.functions)
                /\ TablesQuery(catalog, e.name) = <<>> => e.tables = <<>>
                /\ Sent("views", e.name) /\ Sent("functions", e.name)
                /\ e.views = getViews(ViewsQuery(catalog, searchPath, e.name))
                /\ e.functions = getFunctions(FunctionsQuery(catalog, e.name))
                /\ \A j \in 1..Len(e.tables) :
                       LET tb == e.tables[j]
                       IN  /\ {"columns", "constraints", "foreignKeys", "triggers",
                                "indexes"} \subseteq DOMAIN tb
                           /\ IsList(tb.columns) /\ IsList(tb.constraints)
                           /\ IsList(tb.foreignKeys) /\ IsList(tb.triggers)
                           /\ IsList(tb.indexes)

\* A document with a schema without tables, and a table without constraints.
C7_Witness ==
    /\ Returned_
    /\ \E i \in 1..Len(DocSchemas) :
           DocSchemas[i].tables = <<>> /\ DocSchemas[i].views = <<>>
    /\ \E i \in 1..Len(DocSchemas) :
           \E j \in 1..Len(DocSchemas[i].tables) :
               DocSchemas[i].tables[j].constraints # <<>>

\* C8: every constraint entry of the document has exactly the fields name,
\* type and definition, and type is the label of the constraint's code.
C8_ConstraintEntryShape ==
    Returned_ =>
        \A i \in 1..Len(DocSchemas) :
            \A j \in 1..Len(DocSchemas[i].tables) :
                LET cs == DocSchemas[i].tables[j].constraints
                IN  \A k \in 1..Len(cs) :
                        /\ DOMAIN cs[k] = {"name", "type", "definition"}
                        /\ \E c \in Constraints(catalog, DocSchemas[i].name,
                                                DocSchemas[i].tables[j].name) :
                               /\ c.conname = cs[k].name
                               /\ cs[k].type = ConstraintTypeDesc(c.contype)

\* C9: the document lists one database, the one current_database() names,
\* with the walker's schema list; pg_database is never queried.
C9_OnlyCurrentDatabase ==
    /\ \A i \in 1..Len(log) : log[i].q # "databases"
    /\ \A c \in inflight : c.q # "databases"
    /\ Returned_ =>
           /\ DOMAIN outcome.doc = {"databases"}
           /\ Len(outcome.doc.databases) = 1
           /\ outcome.doc.databases[1].name = CurrentDatabaseQuery[1].db_name
           /\ Column(DocSchemas, "name") = Column(SchemasQuery(catalog), "schema_name")
           /\ DocSchemas = DocumentUnder(catalog, searchPath).databases[1].schemas

\* A document over a catalog with two listed schemas.
C9_Witness ==
    /\ Returned_
    /\ Len(DocSchemas) = 2

\* The base tables of the non-system schemas.
NonSystemTables(cat) ==
    {c \in cat.pg_class : c.relkind = "r" /\ c.nsp \in NonSystemSchemas(cat)}

\* C10: a run that returns has sent 3 + 3*S + 5*T commands, S the number of
\* non-system schemas and T of their base tables; no command is sent twice and
\* none after a rejection.
C10_CommandCount ==
    /\ Returned_ =>
           Len(log) = 3 + 3 * Cardinality(NonSystemSchemas(catalog))
                        + 5 * Cardinality(NonSystemTables(catalog))
    /\ \A i, j \in 1..Len(log) : i # j => log[i] # log[j]
    /\ Threw => log[Len(log)] = fault.cmd

\* The call has settled: it returned the whole document of the traversal and no
\* error, or it threw an error and returned no document; no frame is left and
\* nothing is in flight.
Ended ==
    /\ awaiting = NoCmd
    /\ inflight = {}
    /\ gs = NoGs /\ gt = NoGt
    /\ \/ /\ outcome.status = "returned"
          /\ DOMAIN outcome = {"status", "doc", "warnings"}
          /\ outcome.doc = DocumentUnder(catalog, searchPath)
       \/ /\ outcome.status = "threw"
          /\ DOMAIN outcome = {"status", "error", "warnings"}
          /\ outcome.error \in Errors

\* The call is running: it is suspended on exactly one command, which is in
\* flight, and has neither returned nor thrown.
Running ==
    /\ outcome = Pending
    /\ awaiting # NoCmd
    /\ inflight = {awaiting}

\* C11: with a finite catalog and every command sent eventually answered (rows
\* or an error), every call of extractStructure eventually ends, and ends in
\* exactly one of two ways: it returns the complete document, or it throws an
\* error. Until then it is suspended on a command in flight, never stopped in
\* between, and once ended it has one outcome, not both and not neither.
C11_EveryCallEnds ==
    /\ [](outcome = NoOutcome \/ Running \/ Ended)
    /\ (outcome = Pending ~> outcome.status \in {"returned", "threw"})

\* One call has thrown and the next one, over the same catalog, has returned a
\* document with tables after the longest traversal.
C11_Witness ==
    /\ prev.status = "threw"
    /\ Ended /\ outcome.status = "returned"
    /\ Len(log) = 29
    /\ \E i \in 1..Len(DocSchemas) : DocSchemas[i].tables # <<>>

====
